---------------------------- MODULE Spec2Model ----------------------------
(***************************************************************************)
(* Model of the two computations of the CSDM case-study dashboard:         *)
(*   - pages/case_2.py : the weekly allocation loop (sufficient supply,    *)
(*     largest-remainder proportional allocation, protection of            *)
(*     'Parter-PAC' in 'Jan Wk4' with greedy clawback);                    *)
(*   - pages/case_1.py : generate_forecast (weighted blend, uplift,        *)
(*     normalisation, two roundings).                                      *)
(*                                                                         *)
(* Floating point.  Both computations run on IEEE doubles.  The model      *)
(* computes with exact rationals (numerator / denominator over integers)   *)
(* and treats the double rounding error as a nondeterministic choice       *)
(* exactly where it can change an integer result: where the exact value    *)
(* is an integer that is floored (case_2) or a .5 tie that is rounded      *)
(* (case_1), and the double operands are not exactly representable.        *)
(* Elsewhere the exact value is at least 1/denominator away from the       *)
(* boundary, far more than the error of a double at these magnitudes.      *)
(***************************************************************************)
EXTENDS Integers, Sequences, FiniteSets, TLC

\* ------------------------------------------------------------------ bounds
\* Largest per-channel demand ask and largest supply of the enumerated inputs.
MaxDemand == 2
MaxSupply == 4
\* Longest series and largest weekly value of the enumerated forecast inputs.
MaxLen == 1
MaxVal == 1

\* ----------------------------------------------------------- small helpers
Min(a, b) == IF a <= b THEN a ELSE b

RECURSIVE GCD(_, _)
GCD(a, b) == IF b = 0 THEN a ELSE GCD(b, a % b)

RECURSIVE IsPow2(_)
IsPow2(n) == IF n <= 1 THEN n = 1 ELSE (n % 2 = 0 /\ IsPow2(n \div 2))

\* num/den (den > 0) is a dyadic rational: a double holds it exactly at the
\* magnitudes of the model.
Dyadic(num, den) == IsPow2(den \div GCD(num, den))

RECURSIVE SumF(_, _)
SumF(f, S) == IF S = {} THEN 0
              ELSE LET x == CHOOSE y \in S : TRUE IN f[x] + SumF(f, S \ {x})

RECURSIVE SumSeq(_)
SumSeq(s) == IF s = <<>> THEN 0 ELSE Head(s) + SumSeq(Tail(s))

Range(s) == {s[i] : i \in DOMAIN s}

\* =================================================================== case_2
\* df_channels' index, in declared order.
Channels == <<"Online Store", "Retail Store", "Parter-AMR", "Parter-Europe", "Parter-PAC">>
ChannelSet == Range(Channels)
Pos(ch) == CHOOSE i \in DOMAIN Channels : Channels[i] = ch

weeks == <<"Jan Wk2", "Jan Wk3", "Jan Wk4", "Jan Wk5">>
WeekSet == Range(weeks)

Total_Cum_Supply == [w \in WeekSet |->
    CASE w = "Jan Wk2" -> 230 [] w = "Jan Wk3" -> 270
      [] w = "Jan Wk4" -> 320 [] w = "Jan Wk5" -> 380]

Superman == [w \in WeekSet |->
    CASE w = "Jan Wk2" -> 85 [] w = "Jan Wk3" -> 100
      [] w = "Jan Wk4" -> 110 [] w = "Jan Wk5" -> 120]

Superman_Mini == [w \in WeekSet |->
    CASE w = "Jan Wk2" -> 40 [] w = "Jan Wk3" -> 60
      [] w = "Jan Wk4" -> 70 [] w = "Jan Wk5" -> 75]

ChannelColumn(a, b, c, d, e) == [ch \in ChannelSet |->
    CASE ch = "Online Store" -> a [] ch = "Retail Store" -> b
      [] ch = "Parter-AMR" -> c [] ch = "Parter-Europe" -> d
      [] ch = "Parter-PAC" -> e]

df_channels == [w \in WeekSet |->
    CASE w = "Jan Wk2" -> ChannelColumn(20, 15, 20, 5, 25)
      [] w = "Jan Wk3" -> ChannelColumn(30, 25, 25, 10, 30)
      [] w = "Jan Wk4" -> ChannelColumn(40, 30, 30, 15, 35)
      [] w = "Jan Wk5" -> ChannelColumn(50, 35, 35, 15, 40)]

\* df_allocation['Remaining_For_SupermanPlus']
Remaining_For_SupermanPlus == [w \in WeekSet |->
    Total_Cum_Supply[w] - (Superman[w] + Superman_Mini[w])]

VARIABLES
    wk,               \* the week of the loop iteration
    protect_pac,      \* the sidebar checkbox
    channel_demands,  \* df_channels[wk]: channel -> demand ask
    supply_available, \* remaining supply of the week
    alloc,            \* channel -> allocated units
    shortage,         \* units still to claw back (protection step)
    others_sorted,    \* channels the clawback loop has still to visit
    pc,               \* position in the loop body
    protected,        \* the protection step raised Parter-PAC to its ask
    \* ------------------------------------------------------------- case_1
    data_1, data_2,   \* region -> sequence of weekly values
    weight,           \* blend weight, in twentieths (slider step 0.05)
    uplift_factor,    \* uplift factor, in hundredths (input step 0.01)
    forecast,         \* the returned forecast
    fresult           \* "call", "returned", or the exception raised

allocVars == <<wk, protect_pac, channel_demands, supply_available, alloc,
               shortage, others_sorted, pc, protected>>
forecastVars == <<data_1, data_2, weight, uplift_factor, forecast, fresult>>
vars == <<allocVars, forecastVars>>

PAC == "Parter-PAC"
ProtectedWeek == "Jan Wk4"

total_demand == SumF(channel_demands, ChannelSet)

\* Exact numerator of raw_alloc[ch] = (demand / total_demand) * supply_available,
\* over the denominator total_demand.
RawNum(ch) == channel_demands[ch] * supply_available

\* The double (d / total) * supply can differ from the exact value by a rounding
\* error.  It matters only when the exact value is a positive integer n: the
\* double is then n (0), just below n (-1: floor n-1, remainder just under 1) or
\* just above n (1: floor n, tiny positive remainder).  No error when d / total
\* is exactly representable; equal demands give the same double.
ErrDemands ==
    {channel_demands[c] : c \in {x \in ChannelSet :
        /\ RawNum(x) > 0
        /\ RawNum(x) % total_demand = 0
        /\ ~Dyadic(channel_demands[x], total_demand)}}

FloatErrs ==
    {[c \in ChannelSet |->
        IF channel_demands[c] \in ErrDemands THEN g[channel_demands[c]] ELSE 0] :
     g \in [ErrDemands -> {-1, 0, 1}]}

\* raw_alloc.apply(np.floor).astype(int)
floored_alloc(fe) ==
    [c \in ChannelSet |->
        (RawNum(c) \div total_demand) - (IF fe[c] = -1 THEN 1 ELSE 0)]

\* remainder = raw_alloc - floored_alloc, as a sort key that orders as the
\* doubles do: 2*total for "just under 1", 2*(numerator mod total) for a true
\* fraction, 1 for a tiny positive error, 0 for exactly 0.
remainder(fe) ==
    [c \in ChannelSet |->
        CASE fe[c] = -1 -> 2 * total_demand
          [] fe[c] = 1  -> 1
          [] OTHER      -> 2 * (RawNum(c) % total_demand)]

remaining_unitsShort(fl) == supply_available - SumF(fl, ChannelSet) - 1

\* int(supply_available - floored_alloc.sum())
remaining_units(fl) == supply_available - SumF(fl, ChannelSet)

top_upsUnsorted(rem, n) ==
    {S \in SUBSET ChannelSet : Cardinality(S) = Min(n, Cardinality(ChannelSet))}

\* remainder.sort_values(ascending=False).head(remaining_units).index: the
\* possible index sets.  sort_values sorts with kind='quicksort', which is not
\* stable, so the order of equal remainders is not determined by the code:
\* every set of n channels (all of them when n exceeds their number) that
\* holds no channel with a smaller remainder than one left out.
top_ups(rem, n) ==
    {S \in SUBSET ChannelSet :
        /\ Cardinality(S) = Min(n, Cardinality(ChannelSet))
        /\ \A c \in S, d \in ChannelSet \ S : rem[c] >= rem[d]}

SufficientAllocZero == [c \in ChannelSet |-> 0]

\* alloc = channel_demands.to_dict()
SufficientAlloc == channel_demands

ProtectAppliesWk3 == protect_pac /\ wk = "Jan Wk3"

\* protect_pac and wk == 'Jan Wk4'
ProtectApplies == protect_pac /\ wk = ProtectedWeek

\* df_channels.loc['Parter-PAC', wk]
pac_ask == channel_demands[PAC]

\* others = [ch for ch in alloc if ch != 'Parter-PAC']
others == SelectSeq(Channels, LAMBDA ch : ch # PAC)

\* Insert ch into a sequence sorted by descending a[.], after every element
\* whose key is >= a[ch]: sorted(..., reverse=True) keeps equal keys in their
\* original order.
RECURSIVE InsertDesc(_, _, _)
InsertDesc(s, ch, a) ==
    IF s = <<>> THEN <<ch>>
    ELSE IF a[Head(s)] >= a[ch] THEN <<Head(s)>> \o InsertDesc(Tail(s), ch, a)
    ELSE <<ch>> \o s

RECURSIVE SortedDesc(_, _)
SortedDesc(s, a) ==
    IF s = <<>> THEN <<>>
    ELSE InsertDesc(SortedDesc(SubSeq(s, 1, Len(s) - 1), a), s[Len(s)], a)

reducibleAll(ch) == alloc[ch]

\* reducible = min(alloc[ch], shortage)
reducible(ch) == Min(alloc[ch], shortage)

\* ------------------------------------------------------------------ inputs
NoAlloc == [c \in ChannelSet |-> 0]

\* The weeks of the reference tables, and every small input.
AllocInputs ==
    {<<w, df_channels[w], Remaining_For_SupermanPlus[w]>> : w \in WeekSet}
    \cup {<<w, d, s>> : w \in WeekSet, d \in [ChannelSet -> 0..MaxDemand],
                        s \in 0..MaxSupply}

ForecastIdle ==
    /\ data_1 = <<>> /\ data_2 = <<>>
    /\ weight = 0 /\ uplift_factor = 0
    /\ forecast = <<>> /\ fresult = "idle"

Init ==
    /\ \E in \in AllocInputs :
          /\ wk = in[1]
          /\ channel_demands = in[2]
          /\ supply_available = in[3]
    /\ protect_pac \in BOOLEAN
    /\ alloc = NoAlloc
    /\ shortage = 0
    /\ others_sorted = <<>>
    /\ pc = "start"
    /\ protected = FALSE
    /\ ForecastIdle

\* ----------------------------------------------------------------- actions
\* if supply_available >= total_demand: alloc = channel_demands.to_dict()
Sufficient ==
    /\ pc = "start"
    /\ supply_available >= total_demand
    /\ alloc' = SufficientAlloc
    /\ pc' = "done"
    /\ UNCHANGED <<wk, protect_pac, channel_demands, supply_available,
                   shortage, others_sorted, protected, forecastVars>>

\* else: steps 1 and 2, the largest-remainder proportional allocation
Proportional ==
    /\ pc = "start"
    /\ supply_available < total_demand
    /\ \E fe \in FloatErrs :
          LET fl == floored_alloc(fe) IN
          \E tops \in top_ups(remainder(fe), remaining_units(fl)) :
              alloc' = [c \in ChannelSet |-> fl[c] + (IF c \in tops THEN 1 ELSE 0)]
    /\ pc' = "protect"
    /\ UNCHANGED <<wk, protect_pac, channel_demands, supply_available,
                   shortage, others_sorted, protected, forecastVars>>

\* step 3 does not apply, or Parter-PAC already has its ask
NoProtection ==
    /\ pc = "protect"
    /\ ~(ProtectApplies /\ alloc[PAC] < pac_ask)
    /\ pc' = "done"
    /\ UNCHANGED <<wk, protect_pac, channel_demands, supply_available, alloc,
                   shortage, others_sorted, protected, forecastVars>>

\* step 3: raise Parter-PAC to its ask, sort the others by current allocation
ProtectRaise ==
    /\ pc = "protect"
    /\ ProtectApplies
    /\ alloc[PAC] < pac_ask
    /\ shortage' = pac_ask - alloc[PAC]
    /\ alloc' = [alloc EXCEPT ![PAC] = pac_ask]
    /\ others_sorted' = SortedDesc(others, alloc')
    /\ protected' = TRUE
    /\ pc' = "clawback"
    /\ UNCHANGED <<wk, protect_pac, channel_demands, supply_available,
                   forecastVars>>

\* one iteration of: for ch in others_sorted
Clawback ==
    /\ pc = "clawback"
    /\ others_sorted # <<>>
    /\ LET ch == Head(others_sorted)
           r  == reducible(ch) IN
          /\ alloc' = [alloc EXCEPT ![ch] = @ - r]
          /\ shortage' = shortage - r
          /\ others_sorted' = Tail(others_sorted)
          /\ pc' = IF shortage - r <= 0 \/ Tail(others_sorted) = <<>>
                   THEN "done" ELSE "clawback"
    /\ UNCHANGED <<wk, protect_pac, channel_demands, supply_available,
                   protected, forecastVars>>

Next == Sufficient \/ Proportional \/ NoProtection \/ ProtectRaise \/ Clawback

Spec == Init /\ [][Next]_vars

\* =================================================================== case_1
Regions == {"AMR", "Europe"}

\* weight = weight / WeightDen (slider step 0.05); uplift_factor =
\* uplift_factor / UpliftDen (number_input step 0.01).
WeightDen == 20
UpliftDen == 100

RegionTotal(data, S) == SumF([r \in S |-> SumSeq(data[r])], S)

\* sum(sum(x) for x in data_1.values())
data_1_sum == RegionTotal(data_1, DOMAIN data_1)
data_2_sum == RegionTotal(data_2, DOMAIN data_2)

\* WeightDen * (weight * data_1_sum + (1 - weight) * data_2_sum): the divisor of
\* norm_factor = data_1_sum / (...), so norm_factor = WeightDen * data_1_sum / NormDen.
NormDen == weight * data_1_sum + (WeightDen - weight) * data_2_sum

\* The doubles weight and 1 - weight, uplift_factor, norm_factor are exact.
WeightExact == Dyadic(weight, WeightDen)
UpliftExact == Dyadic(uplift_factor, UpliftDen)
NormExact == WeightExact /\ Dyadic(WeightDen * data_1_sum, NormDen)

\* Python's round() of the exact value num/den (num >= 0, den > 0): to the
\* nearest integer, a .5 tie to the even one.
RoundHalfEven(num, den) ==
    LET q == num \div den
        r == num % den
    IN  IF 2 * r < den THEN q
        ELSE IF 2 * r > den THEN q + 1
        ELSE IF q % 2 = 0 THEN q ELSE q + 1

\* round() of the double computed for num/den: as RoundHalfEven, except that at
\* an exact .5 tie reached through inexact doubles the double may lie on either
\* side of the tie.
RoundDouble(num, den, exact) ==
    IF 2 * (num % den) = den /\ ~exact
    THEN {num \div den, num \div den + 1}
    ELSE {RoundHalfEven(num, den)}

blendedSwapped(p, d) ==
    RoundDouble((WeightDen - weight) * p + weight * d, WeightDen, WeightExact)

\* round(weight * p + (1 - weight) * d)
blended(p, d) ==
    RoundDouble(weight * p + (WeightDen - weight) * d, WeightDen, WeightExact)

\* round(x * uplift_factor * norm_factor)
uplifted(x) ==
    RoundDouble(x * uplift_factor * WeightDen * data_1_sum, UpliftDen * NormDen,
                UpliftExact /\ NormExact)

\* The values forecast[region][i] can take (i counted from 1).
ForecastValues(region, i) ==
    UNION {uplifted(x) : x \in blended(data_1[region][i], data_2[region][i])}

\* zip(data_1[region], data_2[region]) stops at the shorter sequence.
ZipLen(region) == Min(Len(data_1[region]), Len(data_2[region]))

RegionForecasts(region) ==
    LET n == ZipLen(region) IN
    {s \in [1..n -> UNION {ForecastValues(region, i) : i \in 1..n}] :
        \A i \in 1..n : s[i] \in ForecastValues(region, i)}

\* The dicts generate_forecast can return: one list per region of data_1.
Forecasts ==
    {f \in [DOMAIN data_1 -> UNION {RegionForecasts(r) : r \in DOMAIN data_1}] :
        \A r \in DOMAIN data_1 : f[r] \in RegionForecasts(r)}

\* ------------------------------------------------------------------ inputs
EmptyDict == [r \in {} |-> <<>>]

Datasets ==
    UNION {[D -> [1..n -> 0..MaxVal]] : D \in SUBSET Regions, n \in 0..MaxLen}

\* The docstring's example, its single-region variant, and mismatched variants.
DocData1 == [r \in Regions |-> IF r = "AMR" THEN <<100, 200>> ELSE <<150, 250>>]
DocData2 == [r \in Regions |-> IF r = "AMR" THEN <<120, 180>> ELSE <<130, 220>>]
DocAMR1 == [r \in {"AMR"} |-> <<100, 200>>]
DocAMR2 == [r \in {"AMR"} |-> <<120, 180>>]
DocAMR2Short == [r \in {"AMR"} |-> <<120>>]

ForecastInputs ==
    (Datasets \X Datasets)
    \cup {<<DocData1, DocData2>>, <<DocAMR1, DocAMR2>>, <<DocAMR1, DocAMR2Short>>,
          <<DocAMR1, DocData2>>, <<DocData1, DocAMR2>>}

\* (weight, uplift_factor): the docstring's 0.7 / 1.1, the identity 1.0 / 1.0,
\* an even blend, the dashboard's defaults 0.7 / 1.15, and weight 0.
Params == {<<14, 110>>, <<20, 100>>, <<10, 100>>, <<14, 115>>, <<0, 100>>}

AllocIdle ==
    /\ wk = "Jan Wk2" /\ protect_pac = TRUE
    /\ channel_demands = NoAlloc /\ supply_available = 0
    /\ alloc = NoAlloc /\ shortage = 0 /\ others_sorted = <<>>
    /\ pc = "idle" /\ protected = FALSE

InitForecast ==
    /\ \E in \in ForecastInputs : data_1 = in[1] /\ data_2 = in[2]
    /\ \E p \in Params : weight = p[1] /\ uplift_factor = p[2]
    /\ forecast = EmptyDict
    /\ fresult = "call"
    /\ AllocIdle

\* ----------------------------------------------------------------- actions
\* line 39 divides by zero
RaiseZeroDivision ==
    /\ fresult = "call"
    /\ NormDen = 0
    /\ fresult' = "ZeroDivisionError"
    /\ UNCHANGED <<data_1, data_2, weight, uplift_factor, forecast, allocVars>>

\* data_2[region] of a region data_2 does not hold
RaiseKeyError ==
    /\ fresult = "call"
    /\ NormDen # 0
    /\ ~(DOMAIN data_1 \subseteq DOMAIN data_2)
    /\ fresult' = "KeyError"
    /\ UNCHANGED <<data_1, data_2, weight, uplift_factor, forecast, allocVars>>

\* return forecast
Return ==
    /\ fresult = "call"
    /\ NormDen # 0
    /\ DOMAIN data_1 \subseteq DOMAIN data_2
    /\ forecast' \in Forecasts
    /\ fresult' = "returned"
    /\ UNCHANGED <<data_1, data_2, weight, uplift_factor, allocVars>>

generate_forecast == RaiseZeroDivision \/ RaiseKeyError \/ Return

SpecForecast == InitForecast /\ [][generate_forecast]_vars


\* ================================================================== claims
AllocSum == SumF(alloc, ChannelSet)

\* The exact proportional share of ch lies strictly below alloc[ch]: ch was
\* awarded a largest-remainder unit.
Topped(ch) == alloc[ch] * total_demand > RawNum(ch)

\* The claims' condition "protection is active": the protect flag is on and the
\* week is 'Jan Wk4'.
ProtectionActive == protect_pac /\ wk = "Jan Wk4"

\* C1: in a shortage week whose protection step does not apply, the final
\* allocation sums to exactly the supply available.
C1_ShortageSumsToSupply ==
    (pc = "done" /\ supply_available < total_demand /\ ~ProtectionActive)
        => AllocSum = supply_available

C1_Witness ==
    /\ pc = "done" /\ supply_available < total_demand /\ ~ProtectionActive
    /\ \E c, d \in ChannelSet : Topped(c) /\ ~Topped(d) /\ channel_demands[d] > 0

\* C2: with supply available >= total demand every channel is allocated exactly
\* its demand ask, whatever the protect flag and the week.
C2_SufficientSupplyGivesDemand ==
    (pc = "done" /\ supply_available >= total_demand)
        => \A c \in ChannelSet : alloc[c] = channel_demands[c]

C2_Witness ==
    /\ pc = "done" /\ supply_available >= total_demand
    /\ ProtectionActive /\ channel_demands[PAC] > 0
    /\ \E c \in ChannelSet : channel_demands[c] # channel_demands[PAC]

\* C3: when protection is active and Parter-PAC's demand is <= the supply
\* available, Parter-PAC ends with exactly its demand.
C3_ProtectedGetsFullAsk ==
    (pc = "done" /\ ProtectionActive /\ pac_ask <= supply_available)
        => alloc[PAC] = pac_ask

C3_Witness ==
    /\ pc = "done" /\ protected
    /\ channel_demands = df_channels[ProtectedWeek]
    /\ supply_available = Remaining_For_SupermanPlus[ProtectedWeek]
    /\ alloc[PAC] = pac_ask

\* C4: the final allocation of a week sums to at most the supply available.
C4_SupplyCap == pc = "done" => AllocSum <= supply_available

\* C8: when the protection step raised Parter-PAC and its demand is <= the
\* supply available, the clawback recovers exactly the units added (no shortage
\* is left) and the allocation still sums to the supply available.
C8_ClawbackConservesTotal ==
    (pc = "done" /\ protected /\ pac_ask <= supply_available)
        => shortage = 0 /\ AllocSum = supply_available

C8_Witness ==
    /\ pc = "done" /\ protected /\ pac_ask <= supply_available
    /\ Len(others_sorted) <= 2
    /\ AllocSum = supply_available

C10_AllocWithinDemand ==
    \A c \in ChannelSet :
        alloc[c] \in Int /\ 0 <= alloc[c] /\ alloc[c] <= channel_demands[c]

C10_Witness ==
    /\ pc = "done" /\ protected
    /\ \E c \in ChannelSet \ {PAC} : channel_demands[c] > 0 /\ alloc[c] = 0
    /\ \E c \in ChannelSet : channel_demands[c] = 0
    /\ \E c \in ChannelSet \ {PAC} : alloc[c] > 0

\* ------------------------------------------------------------------ case_1
\* data_1 and data_2 differ in their regions, or in the length of a region.
Mismatched ==
    \/ DOMAIN data_1 # DOMAIN data_2
    \/ \E r \in DOMAIN data_1 \cap DOMAIN data_2 : Len(data_1[r]) # Len(data_2[r])

\* C5: the docstring's example returns {'AMR': [112, 198], 'Europe': [144, 242]},
\* and its single-region variant AMR = [112, 198].
C5_DocstringExample ==
    (fresult # "call" /\ weight = 14 /\ uplift_factor = 110) =>
        /\ (data_1 = DocData1 /\ data_2 = DocData2) =>
              /\ fresult = "returned"
              /\ forecast = [r \in Regions |->
                    IF r = "AMR" THEN <<112, 198>> ELSE <<144, 242>>]
        /\ (data_1 = DocAMR1 /\ data_2 = DocAMR2) =>
              /\ fresult = "returned"
              /\ forecast = [r \in {"AMR"} |-> <<112, 198>>]

\* C6: with mismatched regions or lengths generate_forecast raises ValueError
\* and returns no forecast.
C6_MismatchRaisesValueError ==
    (fresult # "call" /\ Mismatched) => fresult = "ValueError"

IdentityCall ==
    /\ fresult # "call"
    /\ weight = WeightDen /\ uplift_factor = UpliftDen
    /\ ~Mismatched

=============================================================================
